---- MODULE Spec2Model ----
(***************************************************************************)
(* Model of the response-normalization and content-rendering layer of      *)
(* mailtm-cli-py.py: _simplify_html, _normalize_collection,                *)
(* _format_address, _format_address_list, _sort_desc_by_created and the    *)
(* printers print_domains, print_list, print_message.                      *)
(*                                                                         *)
(* Decoded JSON values are tagged records, Python strings are sequences of *)
(* one-character strings, and an exception leaving a function is the value *)
(* Raise(<exception type>).                                                *)
(***************************************************************************)
EXTENDS Integers, Sequences, FiniteSets, TLC

(***************************************************************************)
(* Decoded JSON values (json.loads / resp.json()).                         *)
(***************************************************************************)
Null == [t |-> "null"]
Bool(b) == [t |-> "bool", v |-> b]
Num(n) == [t |-> "num", v |-> n]
Str(s) == [t |-> "str", v |-> s]
List(l) == [t |-> "list", v |-> l]
Dict(d) == [t |-> "dict", v |-> d]
\* An exception propagating out of a call.
Raise(e) == [t |-> "raise", v |-> e]

EmptyDict == [k \in {} |-> Null]

IsRaise(x) == x.t = "raise"

\* Python truth value of a JSON value (`if x`, `x or y`, `not x`).
Truthy(x) ==
  CASE x.t = "null" -> FALSE
    [] x.t = "bool" -> x.v
    [] x.t = "num"  -> x.v # 0
    [] x.t = "str"  -> Len(x.v) > 0
    [] x.t = "list" -> Len(x.v) > 0
    [] x.t = "dict" -> DOMAIN x.v # {}

\* `a or b`
Or(a, b) == IF Truthy(a) THEN a ELSE b

\* dict.get(key, default); dict.get(key) is Get(d, key, Null).
Get(d, key, default) == IF key \in DOMAIN d.v THEN d.v[key] ELSE default

\* x.get(key, default) on an arbitrary value: only a dict has the method.
GetAttr(x, key, default) ==
  IF x.t = "dict" THEN Get(x, key, default) ELSE Raise("AttributeError")

(***************************************************************************)
(* Strings.                                                                *)
(***************************************************************************)
RECURSIVE Concat(_)
\* "".join(seqs)
Concat(seqs) ==
  IF seqs = <<>> THEN <<>> ELSE Head(seqs) \o Concat(Tail(seqs))

RECURSIVE Join(_, _)
\* sep.join(strs)
Join(sep, strs) ==
  IF strs = <<>> THEN <<>>
  ELSE IF Len(strs) = 1 THEN strs[1]
  ELSE strs[1] \o sep \o Join(sep, Tail(strs))

\* Characters str.strip() removes and the regex class \s matches.
Whitespace == {" ", "\t", "\n", "\r", "\f"}

Digits == {"0", "1", "2", "3", "4", "5", "6", "7", "8", "9"}

UpperCase ==
  <<"A", "B", "C", "D", "E", "F", "G", "H", "I", "J", "K", "L", "M",
    "N", "O", "P", "Q", "R", "S", "T", "U", "V", "W", "X", "Y", "Z">>
LowerCase ==
  <<"a", "b", "c", "d", "e", "f", "g", "h", "i", "j", "k", "l", "m",
    "n", "o", "p", "q", "r", "s", "t", "u", "v", "w", "x", "y", "z">>

\* Case folding of a character (re.IGNORECASE).
Lower(c) ==
  IF \E i \in 1..Len(UpperCase) : UpperCase[i] = c
  THEN LowerCase[CHOOSE i \in 1..Len(UpperCase) : UpperCase[i] = c]
  ELSE c

RECURSIVE LStrip(_)
LStrip(s) ==
  IF s # <<>> /\ Head(s) \in Whitespace THEN LStrip(Tail(s)) ELSE s

RECURSIVE RStrip(_)
RStrip(s) ==
  IF s # <<>> /\ s[Len(s)] \in Whitespace
  THEN RStrip(SubSeq(s, 1, Len(s) - 1)) ELSE s

\* str.strip()
Strip(s) == RStrip(LStrip(s))

\* s[:n]
Prefix(s, n) == SubSeq(s, 1, IF Len(s) < n THEN Len(s) ELSE n)

\* s starts with w at index i (1-based).
StartsAt(s, i, w) ==
  /\ i + Len(w) - 1 <= Len(s)
  /\ \A j \in 1..Len(w) : s[i + j - 1] = w[j]

\* The indices at which old occurs in s.
Occurrences(s, old) == {i \in 1..Len(s) : StartsAt(s, i, old)}

RECURSIVE Replace(_, _, _)
\* str.replace(old, new) for a non-empty old: the leftmost occurrence is
\* replaced, then those of the rest of the string.
Replace(s, old, new) ==
  IF Occurrences(s, old) = {} THEN s
  ELSE LET i == CHOOSE i \in Occurrences(s, old) :
                  \A j \in Occurrences(s, old) : i <= j
       IN SubSeq(s, 1, i - 1) \o new
            \o Replace(SubSeq(s, i + Len(old), Len(s)), old, new)

(***************************************************************************)
(* Regular expressions: the patterns of _simplify_html as sequences of     *)
(* atoms, matched the way Python's backtracking `re` engine matches them   *)
(* (alternatives in order, lazy repeats shortest first, greedy repeats     *)
(* longest first, the first overall success wins).                         *)
(***************************************************************************)
Chr(c) == [k |-> "chr", c |-> c]                  \* a literal character
Cls(S) == [k |-> "cls", set |-> S]                \* one character of a class
Alt(words) == [k |-> "alt", words |-> words]      \* group 1: (w1|w2|...)
LazyAny == [k |-> "lazyany"]                      \* .*?
Greedy(S, min) == [k |-> "greedy", set |-> S, min |-> min]  \* [S]{min,}
Opt(c) == [k |-> "opt", c |-> c]                  \* c?
BackRef == [k |-> "backref"]                      \* \1

\* A literal word as single-character atoms.
Lit(w) == [j \in 1..Len(w) |-> Chr(w[j])]

Regex(atoms, ic, dotall) == [atoms |-> atoms, ic |-> ic, dotall |-> dotall]

\* Does the single-character atom a accept character c?
AtomOk(re, a, c) ==
  IF a.k = "chr"
  THEN (IF re.ic THEN Lower(c) = Lower(a.c) ELSE c = a.c)
  ELSE c \in a.set

\* End (index after the last character) of word w matched at s[i], or 0.
MatchWord(re, w, s, i) ==
  IF /\ i + Len(w) - 1 <= Len(s)
     /\ \A j \in 1..Len(w) : AtomOk(re, w[j], s[i + j - 1])
  THEN i + Len(w) ELSE 0

RECURSIVE RunLen(_, _, _)
\* Length of the maximal run of characters of S starting at s[i].
RunLen(s, i, S) ==
  IF i <= Len(s) /\ s[i] \in S THEN 1 + RunLen(s, i + 1, S) ELSE 0

RECURSIVE MatchFrom(_, _, _, _, _)
RECURSIVE TryAlt(_, _, _, _, _)
RECURSIVE TryLazy(_, _, _, _, _, _)
RECURSIVE TryGreedy(_, _, _, _, _, _)

\* Atoms k.. of re matched at s[i] with group 1 = cap: the end the engine
\* settles on (index after the match), or 0 when there is no match.
MatchFrom(re, k, s, i, cap) ==
  IF k > Len(re.atoms) THEN i
  ELSE LET a == re.atoms[k] IN
    CASE a.k \in {"chr", "cls"} ->
           IF i <= Len(s) /\ AtomOk(re, a, s[i])
           THEN MatchFrom(re, k + 1, s, i + 1, cap) ELSE 0
      [] a.k = "alt" -> TryAlt(re, k, s, i, 1)
      [] a.k = "lazyany" -> TryLazy(re, k, s, i, cap, 0)
      [] a.k = "greedy" -> TryGreedy(re, k, s, i, cap, RunLen(s, i, a.set))
      [] a.k = "opt" ->
           LET with == IF i <= Len(s) /\ AtomOk(re, Chr(a.c), s[i])
                       THEN MatchFrom(re, k + 1, s, i + 1, cap) ELSE 0
           IN IF with # 0 THEN with ELSE MatchFrom(re, k + 1, s, i, cap)
      [] a.k = "backref" ->
           LET e == MatchWord(re, Lit(cap), s, i)
           IN IF e # 0 THEN MatchFrom(re, k + 1, s, e, cap) ELSE 0

\* The alternatives of the group at atom k, from the w-th on, in order.
TryAlt(re, k, s, i, w) ==
  IF w > Len(re.atoms[k].words) THEN 0
  ELSE LET e == MatchWord(re, re.atoms[k].words[w], s, i)
           r == IF e = 0 THEN 0
                ELSE MatchFrom(re, k + 1, s, e, SubSeq(s, i, e - 1))
       IN IF r # 0 THEN r ELSE TryAlt(re, k, s, i, w + 1)

\* .*? having consumed n characters: try the rest, else one more character.
TryLazy(re, k, s, i, cap, n) ==
  LET r == MatchFrom(re, k + 1, s, i + n, cap) IN
  IF r # 0 THEN r
  ELSE IF i + n <= Len(s) /\ (re.dotall \/ s[i + n] # "\n")
  THEN TryLazy(re, k, s, i, cap, n + 1)
  ELSE 0

\* [S]{min,} consuming n characters: try the rest, else one character fewer.
TryGreedy(re, k, s, i, cap, n) ==
  IF n < re.atoms[k].min THEN 0
  ELSE LET r == MatchFrom(re, k + 1, s, i + n, cap) IN
       IF r # 0 THEN r ELSE TryGreedy(re, k, s, i, cap, n - 1)

RECURSIVE SubFrom(_, _, _, _)
SubFrom(re, repl, s, pos) ==
  IF pos > Len(s) THEN <<>>
  ELSE LET e == MatchFrom(re, 1, s, pos, <<>>) IN
       IF e > pos THEN repl \o SubFrom(re, repl, s, e)
       ELSE <<s[pos]>> \o SubFrom(re, repl, s, pos + 1)

\* re.sub(re, repl, s): leftmost non-overlapping matches replaced by repl
\* (every pattern of the program matches at least one character).
ReSub(re, repl, s) == SubFrom(re, repl, s, 1)

(***************************************************************************)
(* html.unescape, for the named references the model's texts can hold      *)
(* (no '#' occurs in them, so numeric references never arise).             *)
(***************************************************************************)
\* Entries of html.entities.html5 for lt, gt and amp, with and without ';'.
Html5 ==
  (<<"l", "t", ";">> :> <<"<">>) @@ (<<"l", "t">> :> <<"<">>) @@
  (<<"g", "t", ";">> :> <<">">>) @@ (<<"g", "t">> :> <<">">>) @@
  (<<"a", "m", "p", ";">> :> <<"&">>) @@ (<<"a", "m", "p">> :> <<"&">>)

\* Characters that end the name of a character reference: [^\t\n\f <&#;]
NameStop == {"\t", "\n", "\f", " ", "<", "&", "#", ";"}

RECURSIVE NameLen(_, _)
\* Length of the reference name starting at s[i] (at most 32 characters).
NameLen(s, i) ==
  IF i <= Len(s) /\ s[i] \notin NameStop THEN 1 + NameLen(s, i + 1) ELSE 0

RECURSIVE LongestKnown(_, _)
\* The longest x in 2..n with ref[:x] in html5, or 0 (replace_charref's loop).
LongestKnown(ref, n) ==
  IF n < 2 THEN 0
  ELSE IF SubSeq(ref, 1, n) \in DOMAIN Html5 THEN n
  ELSE LongestKnown(ref, n - 1)

\* replace_charref: the replacement of "&" + ref.
ReplaceCharref(ref) ==
  IF ref \in DOMAIN Html5 THEN Html5[ref]
  ELSE LET x == LongestKnown(ref, Len(ref) - 1) IN
       IF x # 0 THEN Html5[SubSeq(ref, 1, x)] \o SubSeq(ref, x + 1, Len(ref))
       ELSE <<"&">> \o ref

RECURSIVE UnescapeFrom(_, _)
UnescapeFrom(s, i) ==
  IF i > Len(s) THEN <<>>
  ELSE IF s[i] = "&" /\ NameLen(s, i + 1) > 0
  THEN LET n == NameLen(s, i + 1)
           semi == IF i + n + 1 <= Len(s) /\ s[i + n + 1] = ";" THEN 1 ELSE 0
           ref == SubSeq(s, i + 1, i + n + semi)
       IN ReplaceCharref(ref) \o UnescapeFrom(s, i + n + semi + 1)
  ELSE <<s[i]>> \o UnescapeFrom(s, i + 1)

\* html.unescape(s)
Unescape(s) == UnescapeFrom(s, 1)

(***************************************************************************)
(* _simplify_html                                                          *)
(***************************************************************************)
\* r"(?is)<(script|style).*?>.*?</\1>"
ScriptStyleRe ==
  Regex(<<Chr("<"),
          Alt(<<Lit(<<"s", "c", "r", "i", "p", "t">>),
                Lit(<<"s", "t", "y", "l", "e">>)>>),
          LazyAny, Chr(">"), LazyAny, Chr("<"), Chr("/"), BackRef, Chr(">")>>,
        TRUE, TRUE)

\* r"(?i)<br\s*/?>"
BrRe ==
  Regex(<<Chr("<"), Chr("b"), Chr("r"), Greedy(Whitespace, 0), Opt("/"),
          Chr(">")>>, TRUE, FALSE)

\* r"(?i)</(p|div|h\d|li|tr|table|ul|ol)>"
BlockCloseRe ==
  Regex(<<Chr("<"), Chr("/"),
          Alt(<<Lit(<<"p">>), Lit(<<"d", "i", "v">>),
                <<Chr("h"), Cls(Digits)>>, Lit(<<"l", "i">>),
                Lit(<<"t", "r">>), Lit(<<"t", "a", "b", "l", "e">>),
                Lit(<<"u", "l">>), Lit(<<"o", "l">>)>>),
          Chr(">")>>, TRUE, FALSE)

\* r"(?s)<.*?>"
TagRe == Regex(<<Chr("<"), LazyAny, Chr(">")>>, FALSE, TRUE)

\* r"[ \t]+\n"
TrailingSpaceRe ==
  Regex(<<Greedy({" ", "\t"}, 1), Chr("\n")>>, FALSE, FALSE)

\* r"\n{4,}"
NewlinesRe_FourOrMore == Regex(<<Greedy({"\n"}, 4)>>, FALSE, FALSE)

\* r"\n{3,}"
NewlinesRe == Regex(<<Greedy({"\n"}, 3)>>, FALSE, FALSE)

\* Can `for part in x` iterate over x?  (Iterating anything else raises
\* TypeError; the model's inputs hold no dict where one is iterated.)
Iterable(x) == x.t \in {"list", "str"}

\* The elements a `for part in x` loop visits (a str yields its characters).
Elements(x) ==
  IF x.t = "list" THEN x.v ELSE [j \in 1..Len(x.v) |-> Str(<<x.v[j]>>)]

\* [part for part in html_parts if isinstance(part, str)], as texts
StrParts(parts) ==
  LET F[n \in 0..Len(parts)] ==
        IF n = 0 THEN <<>>
        ELSE IF parts[n].t = "str" THEN Append(F[n - 1], parts[n].v)
        ELSE F[n - 1]
  IN F[Len(parts)]

\* The passes with every tag stripped before <br> and the closing block tags
\* are turned into newlines.
SimplifyText_TagsStrippedFirst(html) ==
  LET h1 == Unescape(html)
      h2 == ReSub(ScriptStyleRe, <<>>, h1)
      h3 == ReSub(TagRe, <<>>, h2)
      h4 == ReSub(BrRe, <<"\n">>, h3)
      h5 == ReSub(BlockCloseRe, <<"\n">>, h4)
      h6 == ReSub(TrailingSpaceRe, <<"\n">>, h5)
      h7 == ReSub(NewlinesRe, <<"\n", "\n">>, h6)
  IN Strip(h7)

\* The rewrite passes of lines 34-41, in the order the code applies them.
SimplifyText(html) ==
  LET h1 == Unescape(html)
      h2 == ReSub(ScriptStyleRe, <<>>, h1)
      h3 == ReSub(BrRe, <<"\n">>, h2)
      h4 == ReSub(BlockCloseRe, <<"\n">>, h3)
      h5 == ReSub(TagRe, <<>>, h4)
      h6 == ReSub(TrailingSpaceRe, <<"\n">>, h5)
      h7 == ReSub(NewlinesRe, <<"\n", "\n">>, h6)
  IN Strip(h7)

\* _simplify_html(html_parts): a Str, or a Raise.
_simplify_html(html_parts) ==
  IF ~Truthy(html_parts) THEN Str(<<>>)
  ELSE IF ~Iterable(html_parts) THEN Raise("TypeError")
  ELSE Str(SimplifyText(Join(<<"\n", "\n">>, StrParts(Elements(html_parts)))))

(***************************************************************************)
(* _normalize_collection                                                   *)
(***************************************************************************)
\* {"hydra:member": items, "hydra:totalItems": total}
Envelope(items, total) ==
  Dict(("hydra:member" :> items) @@ ("hydra:totalItems" :> total))

\* The fallback taken for every falsy value only: `coll or {...}`.
Normalize_TruthyPassesThrough(coll) ==
  IF coll.t = "list" THEN Envelope(coll, Num(Len(coll.v)))
  ELSE IF Truthy(coll) THEN coll
  ELSE Envelope(List(<<>>), Num(0))

_normalize_collection(coll) ==
  IF coll.t = "list" THEN Envelope(coll, Num(Len(coll.v)))
  ELSE IF coll.t = "dict" THEN coll
  ELSE Envelope(List(<<>>), Num(0))

(***************************************************************************)
(* _format_address, _format_address_list                                   *)
(***************************************************************************)
DigitChars == <<"0", "1", "2", "3", "4", "5", "6", "7", "8", "9">>

RECURSIVE Decimal(_)
\* str(n) for n >= 0
Decimal(n) ==
  IF n < 10 THEN <<DigitChars[n + 1]>>
  ELSE Decimal(n \div 10) \o <<DigitChars[(n % 10) + 1]>>

\* What an f-string field {x} renders for a str, a number, None or a bool.
Format(x) ==
  CASE x.t = "str" -> x.v
    [] x.t = "num" -> Decimal(x.v)
    [] x.t = "null" -> <<"N", "o", "n", "e">>
    [] x.t = "bool" -> IF x.v THEN <<"T", "r", "u", "e">>
                       ELSE <<"F", "a", "l", "s", "e">>

\* The two-field form chosen with `or` in place of `and`.
FormatAddress_EitherField(addr) ==
  IF addr.t = "dict"
  THEN LET name == Or(Get(addr, "name", Null), Str(<<>>))
           email == Or(Get(addr, "address", Null), Str(<<>>))
       IN IF Truthy(name) \/ Truthy(email)
          THEN Str(Format(name) \o <<" ", "<">> \o Format(email) \o <<">">>)
          ELSE Or(email, name)
  ELSE IF addr.t = "str" THEN addr
  ELSE Str(<<>>)

_format_address(addr) ==
  IF addr.t = "dict"
  THEN LET name == Or(Get(addr, "name", Null), Str(<<>>))
           email == Or(Get(addr, "address", Null), Str(<<>>))
       IN IF Truthy(name) /\ Truthy(email)
          THEN Str(Format(name) \o <<" ", "<">> \o Format(email) \o <<">">>)
          ELSE Or(email, name)
  ELSE IF addr.t = "str" THEN addr
  ELSE Str(<<>>)

\* The parts list built by the loop of lines 70-74.
AddressParts(addrs) ==
  LET F[n \in 0..Len(addrs)] ==
        IF n = 0 THEN <<>>
        ELSE LET s == _format_address(addrs[n])
             IN IF Truthy(s) THEN Append(F[n - 1], s) ELSE F[n - 1]
  IN F[Len(addrs)]

\* sep.join(parts): every item must be a str.
JoinValues(sep, parts) ==
  IF \E i \in 1..Len(parts) : parts[i].t # "str" THEN Raise("TypeError")
  ELSE Str(Join(sep, [i \in 1..Len(parts) |-> parts[i].v]))

_format_address_list(addrs) ==
  IF addrs.t = "null" THEN Str(<<>>)
  ELSE LET l == IF addrs.t \in {"dict", "str"} THEN List(<<addrs>>) ELSE addrs
       IN IF l.t = "list" THEN JoinValues(<<",", " ">>, AddressParts(l.v))
          ELSE Str(<<>>)

(***************************************************************************)
(* _sort_desc_by_created                                                   *)
(***************************************************************************)
\* The characters of the model's timestamps, in code point order.
CharOrder == <<"-", "0", "1", "2", "3", "4", "5", "6", "7", "8", "9", ":", "T", "Z">>

Ord(c) == CHOOSE i \in 1..Len(CharOrder) : CharOrder[i] = c

RECURSIVE StrLess(_, _)
\* a < b for two str: lexicographic by code point.
StrLess(a, b) ==
  IF b = <<>> THEN FALSE
  ELSE IF a = <<>> THEN TRUE
  ELSE IF Head(a) = Head(b) THEN StrLess(Tail(a), Tail(b))
  ELSE Ord(Head(a)) < Ord(Head(b))

\* The sort key of an item: m.get("createdAt") or ""
SortKey(m) == Or(Get(m, "createdAt", Null), Str(<<>>))

\* Does `a < b` evaluate for two keys? (str with str, number with number.)
Comparable(a, b) == a.t = b.t /\ a.t \in {"str", "num"}

\* a < b for two comparable keys.
KeyLess(a, b) == IF a.t = "str" THEN StrLess(a.v, b.v) ELSE a.v < b.v

Reverse(s) == [i \in 1..Len(s) |-> s[Len(s) + 1 - i]]

\* x inserted into the ascending run after every element not greater than
\* it (the binary insertion of list.sort, which keeps equal keys in order).
InsertAsc(run, x) ==
  LET before == {i \in 1..Len(run) : ~KeyLess(SortKey(x), SortKey(run[i]))}
      n == Cardinality(before)
  IN SubSeq(run, 1, n) \o <<x>> \o SubSeq(run, n + 1, Len(run))

\* The stable ascending sort of list.sort.
StableAsc(items) ==
  LET F[n \in 0..Len(items)] ==
        IF n = 0 THEN <<>> ELSE InsertAsc(F[n - 1], items[n])
  IN F[Len(items)]

\* An ascending sort reversed afterwards: sorted(items, key=...)[::-1].
SortedDesc_ReversedAfter(items) == Reverse(StableAsc(items))

\* sorted(items, key=..., reverse=True) for comparable keys: list.sort
\* reverses the list, sorts it ascending and stable, and reverses it again.
SortedDesc(items) == Reverse(StableAsc(Reverse(items)))

\* _sort_desc_by_created(items): a new List, or a Raise.
_sort_desc_by_created(items) ==
  CASE items.t \in {"null", "num", "bool"} -> Raise("TypeError")
    [] items.t = "str" ->
         IF items.v = <<>> THEN List(<<>>) ELSE Raise("AttributeError")
    [] items.t = "dict" ->
         IF DOMAIN items.v = {} THEN List(<<>>) ELSE Raise("AttributeError")
    [] items.t = "list" ->
         IF \E i \in 1..Len(items.v) : items.v[i].t # "dict"
         THEN Raise("AttributeError")
         ELSE IF \E i, j \in 1..Len(items.v) :
                   ~Comparable(SortKey(items.v[i]), SortKey(items.v[j]))
         THEN (IF Len(items.v) < 2 THEN items ELSE Raise("TypeError"))
         ELSE List(SortedDesc(items.v))

(***************************************************************************)
(* Printers.  What a printer writes is the sequence of its print() calls,  *)
(* each the literal text of its f-string with the values of its fields;    *)
(* Printed(out, exc) is that sequence and the exception that ended the     *)
(* printer, or Null when it returned.                                      *)
(***************************************************************************)
Line(fmt, args) == [fmt |-> fmt, args |-> args]

Printed(out, exc) == [out |-> out, exc |-> exc]

Rule == Line("--------------------------------------------------------------", <<>>)

Blank == Line("", <<>>)

\* The one-character strings U+2026 and U+2713.
Ellipsis == "U+2026"
CheckMark == "U+2713"

\* The fixed character budget of the intro preview.
IntroBudget == 120

\* The text '\\n' of line 285: inside the replacement field of the f-string
\* it is an ordinary string literal, a backslash followed by the letter n.
IntroNewline == <<"\\", "n">>

\* {intro[:120].replace('\\n',' ')}{<ellipsis> if len(intro) > 120 else ''}
IntroPreview(intro) ==
  Replace(Prefix(intro, IntroBudget), IntroNewline, <<" ">>)
    \o (IF Len(intro) > IntroBudget THEN <<Ellipsis>> ELSE <<>>)

\* The print() calls of one pass of the loop of print_list (lines 275-286).
ListEntry(it) ==
  LET created == Get(it, "createdAt", Null)
      subj == Or(Get(it, "subject", Null),
                 Str(<<"(", "n", "o", " ", "s", "u", "b", "j", "e", "c", "t", ")">>))
      mid == Get(it, "id", Null)
      intro == Or(Get(it, "intro", Null), Str(<<>>))
      seen == IF Truthy(Get(it, "seen", Null)) THEN Str(<<CheckMark>>) ELSE Str(<<" ">>)
      frm_str == _format_address(Get(it, "from", Null))
      top == << Line("[{seen}] {created}  {subj}", <<seen, created, subj>>),
                Line("      From: {frm_str}", <<frm_str>>),
                Line("      ID:   {mid}", <<mid>>) >>
  IN IF ~Truthy(intro) THEN Printed(top \o <<Blank>>, Null)
     ELSE IF intro.t # "str" THEN Printed(top, Raise("TypeError"))
     ELSE Printed(top \o << Line("      Intro: {preview}",
                                 <<Str(IntroPreview(intro.v))>>), Blank >>, Null)

RECURSIVE PrintEntries(_, _)
\* The loop of print_list from the n-th item on.
PrintEntries(items, n) ==
  IF n > Len(items) THEN Printed(<<>>, Null)
  ELSE LET e == ListEntry(items[n]) IN
       IF e.exc # Null THEN e
       ELSE LET rest == PrintEntries(items, n + 1)
            IN Printed(e.out \o rest.out, rest.exc)

print_list(coll) ==
  IF coll.t # "dict" THEN Printed(<<>>, Raise("AttributeError"))
  ELSE LET items == _sort_desc_by_created(Get(coll, "hydra:member", List(<<>>)))
       IN IF IsRaise(items) THEN Printed(<<>>, items)
          ELSE LET total == Get(coll, "hydra:totalItems", Num(Len(items.v)))
                   top == << Line("Inbox (showing {len(items)} of ~{total})",
                                  <<Num(Len(items.v)), total>>), Rule >>
               IN IF items.v = <<>>
                  THEN Printed(top \o <<Line("(empty)", <<>>)>>, Null)
                  ELSE LET body == PrintEntries(items.v, 1)
                       IN Printed(top \o body.out, body.exc)

\* len(x) where the model takes it: of a list, a str or a dict.
PyLen(x) ==
  CASE x.t \in {"list", "str"} -> Num(Len(x.v))
    [] x.t = "dict" -> Num(Cardinality(DOMAIN x.v))
    [] OTHER -> Raise("TypeError")

\* The print() call of one pass of the loop of print_domains.
DomainEntry(d) ==
  IF d.t # "dict" THEN Printed(<<>>, Raise("AttributeError"))
  ELSE LET dom == Or(Or(Get(d, "domain", Null), Get(d, "name", Null)), Str(<<>>))
           is_active == Get(d, "isActive", Bool(TRUE))
           created == Or(Get(d, "createdAt", Null), Str(<<>>))
       IN Printed(<<Line("- {dom}  active={is_active}  created={created}",
                         <<dom, is_active, created>>)>>, Null)

RECURSIVE PrintDomainEntries(_, _)
PrintDomainEntries(items, n) ==
  IF n > Len(items) THEN Printed(<<Blank>>, Null)
  ELSE LET e == DomainEntry(items[n]) IN
       IF e.exc # Null THEN e
       ELSE LET rest == PrintDomainEntries(items, n + 1)
            IN Printed(e.out \o rest.out, rest.exc)

print_domains(coll) ==
  IF coll.t # "dict" THEN Printed(<<>>, Raise("AttributeError"))
  ELSE LET items == Get(coll, "hydra:member", List(<<>>))
           total == Get(coll, "hydra:totalItems", PyLen(items))
       IN IF IsRaise(total) THEN Printed(<<>>, total)
          ELSE IF IsRaise(PyLen(items)) THEN Printed(<<>>, PyLen(items))
          ELSE LET top == << Line("Domains (showing {len(items)} of ~{total})",
                                  <<PyLen(items), total>>), Rule >>
               IN IF ~Truthy(items)
                  THEN Printed(top \o <<Line("(none)", <<>>)>>, Null)
                  ELSE LET body == IF items.t = "dict"
                                   THEN Printed(<<>>, Raise("AttributeError"))
                                   ELSE PrintDomainEntries(Elements(items), 1)
                       IN Printed(top \o body.out, body.exc)

\* Two stretches of a printer one after the other: the second runs only if
\* the first did not raise.
Then(p, q) == IF p.exc # Null THEN p ELSE Printed(p.out \o q.out, q.exc)

\* Lines 292-301 of print_message.
MessageHead(full) ==
  LET tos_raw == Or(Get(full, "to", Null), Get(full, "recipients", Null))
      tos == _format_address_list(tos_raw)
      subj == Or(Get(full, "subject", Null),
                 Str(<<"(", "n", "o", " ", "s", "u", "b", "j", "e", "c", "t", ")">>))
      upto == << Line("ID:       {id}", <<Get(full, "id", Null)>>),
                 Line("Date:     {createdAt}", <<Get(full, "createdAt", Null)>>),
                 Line("From:     {from}", <<_format_address(Get(full, "from", Null))>>) >>
  IN IF IsRaise(tos) THEN Printed(upto, tos)
     ELSE Printed(upto \o
            << Line("To:       {to}", <<tos>>),
               Line("Subject:  {subject}", <<subj>>),
               Line("Seen:     {seen}", <<Get(full, "seen", Null)>>),
               Line("Size:     {size}", <<Get(full, "size", Null)>>),
               Line("HasAtts:  {hasAttachments}", <<Get(full, "hasAttachments", Null)>>),
               Blank >>, Null)

NoBody == Printed(<<Line("(No body content)", <<>>)>>, Null)

\* The body section with the header printed whenever html is non-empty,
\* without the test of the simplified result.
MessageBody_HeaderUnchecked(full) ==
  LET body_text == Get(full, "text", Null) IN
  IF body_text.t = "str" /\ Strip(body_text.v) # <<>>
  THEN Printed(<< Line("Text Body", <<>>), Line("---------", <<>>),
                  Line("{body_text.strip()}", <<Str(Strip(body_text.v))>>),
                  Blank >>, Null)
  ELSE LET html_parts == Or(Get(full, "html", Null), List(<<>>)) IN
       IF Truthy(html_parts)
       THEN LET simplified == _simplify_html(html_parts) IN
            IF IsRaise(simplified) THEN Printed(<<>>, simplified)
            ELSE Printed(<< Line("HTML Body (simplified)", <<>>),
                            Line("----------------------", <<>>),
                            Line("{simplified}", <<simplified>>), Blank >>, Null)
       ELSE NoBody

\* Lines 302-320 of print_message: the body section.
MessageBody(full) ==
  LET body_text == Get(full, "text", Null) IN
  IF body_text.t = "str" /\ Strip(body_text.v) # <<>>
  THEN Printed(<< Line("Text Body", <<>>), Line("---------", <<>>),
                  Line("{body_text.strip()}", <<Str(Strip(body_text.v))>>),
                  Blank >>, Null)
  ELSE LET html_parts == Or(Get(full, "html", Null), List(<<>>)) IN
       IF Truthy(html_parts)
       THEN LET simplified == _simplify_html(html_parts) IN
            IF IsRaise(simplified) THEN Printed(<<>>, simplified)
            ELSE IF Truthy(simplified)
            THEN Printed(<< Line("HTML Body (simplified)", <<>>),
                            Line("----------------------", <<>>),
                            Line("{simplified}", <<simplified>>), Blank >>, Null)
            ELSE NoBody
       ELSE NoBody

\* The line print_message writes for one attachment.
AttachmentLine(a) ==
  Line("- id={id}  name={filename}  type={contentType}  size={size}",
       <<Get(a, "id", Null), Get(a, "filename", Null),
         Get(a, "contentType", Null), Get(a, "size", Null)>>)

\* Lines 321-325 of print_message: the attachment lines and the last print().
MessageAttachments(full) ==
  IF ~Truthy(Get(full, "hasAttachments", Null)) THEN Printed(<<Blank>>, Null)
  ELSE LET atts == Or(Get(full, "attachments", Null), List(<<>>)) IN
       IF atts.t \in {"num", "bool"} THEN Printed(<<>>, Raise("TypeError"))
       ELSE IF atts.t # "list" THEN Printed(<<Blank>>, Null)
       ELSE LET F[n \in 0..Len(atts.v)] ==
                  IF n = 0 THEN <<>>
                  ELSE IF atts.v[n].t = "dict"
                  THEN Append(F[n - 1], AttachmentLine(atts.v[n]))
                  ELSE F[n - 1]
            IN Printed(Append(F[Len(atts.v)], Blank), Null)

print_message(full) ==
  LET title == Printed(<<Line("Message", <<>>), Line("-------", <<>>)>>, Null) IN
  IF full.t # "dict" THEN Printed(title.out, Raise("AttributeError"))
  ELSE Then(title, Then(MessageHead(full),
            Then(MessageBody(full), MessageAttachments(full))))

(***************************************************************************)
(* Inputs: the decoded JSON values the calls are made with.                *)
(***************************************************************************)
\* Bounds of the input sets.
MaxItems == 3           \* items of a listing given to the sort
MaxElems == 2           \* elements of a bare list given to the normalizer
MaxAddrs == 2           \* entries of an address list
MaxPlainTokens == 3     \* tokens of a tag-free text
MaxMarkupTokens == 3    \* tokens of a marked-up text
MaxFragments == 2       \* fragments of an html field
MaxIntroTail == 2       \* characters of an intro after its padding
MaxListItems == 2       \* items of a rendered listing

\* A key that a mapping does not carry.
Missing == [t |-> "missing"]

\* The mapping with the given <<key, value>> pairs, Missing values left out.
MkDict(pairs) ==
  LET present == {p \in pairs : p[2].t # "missing"}
  IN Dict([k \in {p[1] : p \in present} |->
             (CHOOSE p \in present : p[1] = k)[2]])

\* All sequences of at most n elements of S.
SeqsUpTo(S, n) == UNION {[1..k -> S] : k \in 0..n}

\* The texts made of at most n of the given tokens.
Texts(tokens, n) == {Concat(ts) : ts \in SeqsUpTo(tokens, n)}

Pad(k) == [i \in 1..k |-> "x"]

AddrA == <<"a", "@", "x">>
AddrB == <<"b", "@", "x">>
NameBob == <<"B", "o", "b">>

\* Values of the name and address fields of an address record.
AddrFields(text) == {Missing, Null, Str(<<>>), Str(text), Num(5), Num(0)}

AddressRecords ==
  {MkDict({<<"name", n>>, <<"address", a>>}) :
     n \in AddrFields(NameBob), a \in AddrFields(AddrB)}

AddressInputs ==
  AddressRecords \cup
  {Null, Num(5), Bool(TRUE), List(<<>>), List(<<Str(AddrA)>>), Str(<<>>), Str(AddrA)}

\* Entries an address list is made of.
AddressPool ==
  { Null, Str(<<>>), Str(AddrA), Dict(EmptyDict),
    MkDict({<<"address", Str(AddrA)>>}), MkDict({<<"address", Str(AddrB)>>}),
    MkDict({<<"name", Str(NameBob)>>, <<"address", Str(AddrB)>>}),
    MkDict({<<"name", Num(5)>>}) }

AddressListInputs ==
  {List(l) : l \in SeqsUpTo(AddressPool, MaxAddrs)} \cup
  AddressPool \cup {Num(5), Bool(FALSE)}

\* Values of the createdAt field of a listed item.
CreatedKeys ==
  {Missing, Null, Str(<<>>), Str(<<"1">>), Str(<<"1", "2">>), Str(<<"2">>), Num(5)}

\* A listing whose n-th item carries id n and the n-th of the given keys.
Listing(keys) ==
  List([n \in 1..Len(keys) |->
          MkDict({<<"id", Num(n)>>, <<"createdAt", keys[n]>>})])

January == <<"2", "0", "2", "4", "-", "0", "1", "-", "0", "1", "T", "0", "0", ":", "0", "0", ":", "0", "0", "Z">>
March == <<"2", "0", "2", "4", "-", "0", "3", "-", "0", "1", "T", "0", "0", ":", "0", "0", ":", "0", "0", "Z">>

SortInputs ==
  {Listing(ks) : ks \in SeqsUpTo(CreatedKeys, MaxItems)} \cup
  { Listing(<<Str(January), Str(March), Missing>>),
    Null, Num(3), Str(<<>>), Str(<<"a", "b">>), Dict(EmptyDict),
    MkDict({<<"id", Num(1)>>}),
    List(<<Num(5)>>), List(<<Listing(<<Null>>).v[1], Str(<<"a">>)>>) }

\* Elements of a bare list given to the normalizer.
ElemPool == {Null, Num(1), Str(<<"a">>), MkDict({<<"id", Num(1)>>})}

BareLists == {List(l) : l \in SeqsUpTo(ElemPool, MaxElems)}

\* Mappings given to the normalizer: with or without each envelope key.
EnvelopeInputs ==
  {MkDict({<<"hydra:member", m>>, <<"hydra:totalItems", n>>}) :
     m \in BareLists \cup {Missing, Null, Str(<<"a">>), Num(4)},
     n \in {Missing, Null, Num(0), Num(9)}}

NormalizeInputs ==
  BareLists \cup EnvelopeInputs \cup
  {Null, Num(0), Num(7), Bool(TRUE), Bool(FALSE), Str(<<>>), Str(<<"a", "b">>)}

\* Tokens of tag-free texts.
PlainTokens ==
  { <<"a">>, <<" ">>, <<"\n">>, <<"\n", "\n">>, <<"\n", "\n", "\n">>,
    <<" ", "\n">>, <<"<">>, <<">">>, <<"&">>, <<"&", "a", "m", "p", ";">> }

\* Tokens of marked-up texts.
MarkupTokens ==
  { <<"<", "p", ">">>, <<"<", "/", "P", ">">>, <<"<", "b", "r", ">">>, <<"<", "B", "R", " ", "/", ">">>,
    <<"<", "s", "c", "r", "i", "p", "t", ">">>,
    <<"<", "/", "S", "C", "R", "I", "P", "T", ">">>,
    <<"<", "/", "h", "1", ">">>, <<"<", "/", "h", "7", ">">>, <<"e">>, <<"\n">> }

\* simplify(["<p>Hi<br>there</p><script>evil()</script>"]) of the specification
ExampleHtml ==
  <<"<", "p", ">", "H", "i", "<", "b", "r", ">", "t", "h", "e", "r", "e", "<", "/", "p", ">", "<", "s", "c", "r", "i", "p", "t", ">", "e", "v", "i", "l", "(", ")", "<", "/", "s", "c", "r", "i", "p", "t", ">">>

\* Longer texts: blocks within blocks, tag names that only begin with script
\* or style, a closing tag of another name, entities that decode to markup.
MoreHtml ==
  { ExampleHtml,
    <<"a", "<", "s", "t", "y", "l", "e", ">", "e", "<", "/", "s", "c", "r", "i", "p", "t", ">", "e", "<", "/", "s", "t", "y", "l", "e", ">", "b">>,
    <<"<", "s", "c", "r", "i", "p", "t", "y", ">", "a", "<", "/", "s", "c", "r", "i", "p", "t", "y", ">", "b", "<", "s", "c", "r", "i", "p", "t", ">", "e", "<", "/", "s", "c", "r", "i", "p", "t", ">", "c">>,
    <<"&", "l", "t", ";", "s", "c", "r", "i", "p", "t", "&", "g", "t", ";", "e", "&", "l", "t", ";", "/", "s", "c", "r", "i", "p", "t", "&", "g", "t", ";", "a">>,
    <<"<", "S", "c", "r", "i", "p", "t", "\n", "t", "y", "p", "e", "=", "a", ">", "e", "\n", "e", "<", "/", "s", "C", "R", "I", "P", "T", ">", "a", " ", "<", "b", "r", "/", ">", "\n", "\n", "<", "d", "i", "v", ">", "b", "<", "/", "d", "i", "v", ">", "<", "/", "l", "i", ">", "c", "\t", "\n">>,
    <<"a", "<", "b", "r", "\n", "/", ">", "b", "<", "/", "h", "0", ">", "c", "<", "b", "r", " ", "x", ">", "d", "<", "/", "h", "1", "2", ">", "e">>,
    <<"<", "s", "c", "r", "i", "p", "t", ">", "e", "<", "s", "c", "r", "i", "p", "t", ">", "e", "<", "/", "s", "c", "r", "i", "p", "t", ">", "a", "<", "/", "s", "c", "r", "i", "p", "t", ">", "b">> }

\* Fragments a several-fragment html field is made of.
FragmentPool ==
  {Str(<<"a">>), Str(<<"<", "p", ">", "b", "<", "/", "p", ">">>), Str(<<>>), Str(<<" ">>), Num(5), Null}

SimplifyInputs ==
  {List(<<Str(t)>>) : t \in Texts(PlainTokens, MaxPlainTokens)
                           \cup Texts(MarkupTokens, MaxMarkupTokens)
                           \cup MoreHtml} \cup
  {List(l) : l \in SeqsUpTo(FragmentPool, MaxFragments)} \cup
  {Null, Num(5), Bool(TRUE), Str(<<>>), Str(<<"a", "b">>)}

\* Intros: short ones, and ones that reach or pass the character budget.
IntroTexts ==
  {Pad(k) \o tail : k \in {0, IntroBudget - 1, IntroBudget},
                    tail \in SeqsUpTo({"a", "\n", "\\", "n"}, MaxIntroTail)}

ListItem(id, created, intro) ==
  MkDict({<<"id", Num(id)>>, <<"createdAt", created>>, <<"intro", intro>>})

\* Items a rendered listing is made of.
ItemPool ==
  { ListItem(1, Str(<<"1">>), Str(<<"a", "\n", "b">>)),
    MkDict({<<"id", Num(2)>>, <<"createdAt", Str(<<"2">>)>>, <<"seen", Bool(TRUE)>>,
            <<"subject", Str(<<"H", "i">>)>>,
            <<"from", MkDict({<<"address", Str(AddrA)>>})>>}),
    ListItem(3, Missing, Num(5)),
    ListItem(4, Num(5), Missing),
    Num(5) }

ListInputs ==
  {MkDict({<<"hydra:member", List(<<ListItem(1, Str(<<"1">>), Str(i))>>)>>}) :
     i \in IntroTexts} \cup
  {MkDict({<<"hydra:member", List(l)>>, <<"hydra:totalItems", n>>}) :
     l \in SeqsUpTo(ItemPool, MaxListItems), n \in {Missing, Num(9)}} \cup
  { Dict(EmptyDict), Null, List(<<>>),
    MkDict({<<"hydra:member", Null>>}),
    MkDict({<<"hydra:member", Str(<<"a", "b">>)>>}) }

\* Entries a rendered domain listing is made of.
DomainPool ==
  { MkDict({<<"domain", Str(<<"x", ".", "y">>)>>, <<"isActive", Bool(FALSE)>>,
            <<"createdAt", Str(<<"1">>)>>}),
    MkDict({<<"name", Str(<<"z">>)>>}),
    Dict(EmptyDict), Num(5) }

DomainInputs ==
  {MkDict({<<"hydra:member", List(l)>>, <<"hydra:totalItems", n>>}) :
     l \in SeqsUpTo(DomainPool, MaxListItems), n \in {Missing, Num(9)}} \cup
  {MkDict({<<"hydra:member", m>>, <<"hydra:totalItems", n>>}) :
     m \in {Null, Num(4), Str(<<"a">>), Dict(EmptyDict), MkDict({<<"id", Num(1)>>})},
     n \in {Missing, Num(9)}} \cup
  { Dict(EmptyDict), Null, List(<<>>) }

\* Values of the fields of a message record that decide what is rendered.
TextFields ==
  {Missing, Null, Str(<<>>), Str(<<" ", "\n">>), Str(<<" ", "h", "i", "\n">>), Num(5)}

HtmlFields ==
  { Missing, Null, List(<<>>), List(<<Str(<<>>)>>),
    List(<<Str(<<"<", "p", ">", "<", "/", "p", ">">>)>>),
    List(<<Str(<<"<", "p", ">", "H", "i", "<", "/", "p", ">">>)>>),
    List(<<Str(<<"<", "s", "c", "r", "i", "p", "t", ">", "e", "<", "/", "s", "c", "r", "i", "p", "t", ">", "a">>), Str(<<"b">>)>>),
    List(<<Num(5)>>), Str(<<"h", "i">>), Num(7) }

ToFields ==
  { Missing, List(<<MkDict({<<"address", Str(AddrA)>>})>>),
    List(<<MkDict({<<"name", Num(5)>>})>>) }

AttachmentFields ==
  { Missing, Num(3),
    List(<<MkDict({<<"id", Str(<<"1">>)>>, <<"size", Num(9)>>}), Num(5)>>) }

MessageInputs ==
  {MkDict({<<"id", Str(<<"1">>)>>, <<"text", t>>, <<"html", h>>, <<"to", r>>,
           <<"hasAttachments", f>>, <<"attachments", a>>}) :
     t \in TextFields, h \in HtmlFields, r \in ToFields,
     f \in {Missing, Bool(TRUE)}, a \in AttachmentFields} \cup
  { Dict(EmptyDict), Null, Str(<<"a">>),
    MkDict({<<"recipients", Str(AddrB)>>, <<"from", Str(AddrA)>>}) }

\* The calls of the model: a function of the program and its argument.
Calls ==
  ({"_normalize_collection"} \X NormalizeInputs) \cup
  ({"_sort_desc_by_created"} \X SortInputs) \cup
  ({"_format_address"} \X AddressInputs) \cup
  ({"_format_address_list"} \X AddressListInputs) \cup
  ({"_simplify_html"} \X SimplifyInputs) \cup
  ({"print_domains"} \X DomainInputs) \cup
  ({"print_list"} \X ListInputs) \cup
  ({"print_message"} \X MessageInputs)

(***************************************************************************)
(* The state machine: one call of one function.  pc is "call" before the   *)
(* function runs and "done" after; ret is what it returned, or the Raise   *)
(* it ended with; out is what it printed.                                  *)
(***************************************************************************)
VARIABLES pc, op, arg, ret, out

\* The client object: its token, the Authorization header its session sends
\* by default, the requests the running operation has sent, the number of
\* requests awaiting a response, and the response last received.
VARIABLES _token, _session, wire, inflight, resp

client == <<_token, _session, wire, inflight, resp>>

vars == <<pc, op, arg, ret, out, _token, _session, wire, inflight, resp>>

Init ==
  /\ pc = "call"
  /\ \E c \in Calls : op = c[1] /\ arg = c[2]
  /\ ret = Null
  /\ out = <<>>
  /\ _token = Null /\ _session = Null
  /\ wire = <<>> /\ inflight = 0 /\ resp = Null

\* A helper returns a value (or raises), prints nothing and leaves its
\* argument as it was; a printer prints and returns None (or raises).
NormalizeCollection ==
  /\ pc = "call" /\ op = "_normalize_collection"
  /\ ret' = _normalize_collection(arg)
  /\ pc' = "done"
  /\ UNCHANGED <<op, arg, out>>
  /\ UNCHANGED client

SortDescByCreated ==
  /\ pc = "call" /\ op = "_sort_desc_by_created"
  /\ ret' = _sort_desc_by_created(arg)
  /\ pc' = "done"
  /\ UNCHANGED <<op, arg, out>>
  /\ UNCHANGED client

FormatAddress ==
  /\ pc = "call" /\ op = "_format_address"
  /\ ret' = _format_address(arg)
  /\ pc' = "done"
  /\ UNCHANGED <<op, arg, out>>
  /\ UNCHANGED client

FormatAddressList ==
  /\ pc = "call" /\ op = "_format_address_list"
  /\ ret' = _format_address_list(arg)
  /\ pc' = "done"
  /\ UNCHANGED <<op, arg, out>>
  /\ UNCHANGED client

SimplifyHtml ==
  /\ pc = "call" /\ op = "_simplify_html"
  /\ ret' = _simplify_html(arg)
  /\ pc' = "done"
  /\ UNCHANGED <<op, arg, out>>
  /\ UNCHANGED client

PrintDomains ==
  /\ pc = "call" /\ op = "print_domains"
  /\ out' = print_domains(arg).out
  /\ ret' = print_domains(arg).exc
  /\ pc' = "done"
  /\ UNCHANGED <<op, arg>>
  /\ UNCHANGED client

PrintList ==
  /\ pc = "call" /\ op = "print_list"
  /\ out' = print_list(arg).out
  /\ ret' = print_list(arg).exc
  /\ pc' = "done"
  /\ UNCHANGED <<op, arg>>
  /\ UNCHANGED client

PrintMessage ==
  /\ pc = "call" /\ op = "print_message"
  /\ out' = print_message(arg).out
  /\ ret' = print_message(arg).exc
  /\ pc' = "done"
  /\ UNCHANGED <<op, arg>>
  /\ UNCHANGED client

Next ==
  \/ NormalizeCollection
  \/ SortDescByCreated
  \/ FormatAddress
  \/ FormatAddressList
  \/ SimplifyHtml
  \/ PrintDomains
  \/ PrintList
  \/ PrintMessage

Spec == Init /\ [][Next]_vars

\* The call of function `name` has run.
Done(name) == pc = "done" /\ op = name

(***************************************************************************)
(* The Remote Client (class MailTMClient).  An operation runs from "start" *)
(* to "done"; between sending a request and handling its response the      *)
(* client blocks ("wait", "wait2") until the server answers or the call     *)
(* times out.  The arguments of an operation only enter the URL, which is   *)
(* kept as its path template.                                               *)
(***************************************************************************)
StatusNoContent == 204
FirstErrorStatus == 400

\* The undecoded body of a response (resp.text, r.content).
Raw == Str(<<"r", "a", "w">>)

\* A body that resp.json() cannot decode.
Unparsable == [t |-> "unparsable"]

TokenA == Str(<<"t", "1">>)
TokenB == Str(<<"t", "2">>)

\* Decoded bodies the server may answer with.
Bodies ==
  { MkDict({<<"token", TokenA>>}), MkDict({<<"token", TokenB>>}),
    MkDict({<<"token", Str(<<>>)>>}), MkDict({<<"token", Null>>}),
    MkDict({<<"data", Str(<<"e", "m", "l">>)>>}), Dict(EmptyDict),
    List(<<Dict(EmptyDict)>>), Null, Unparsable }

\* A response: status code, whether Content-Type names JSON, decoded body.
Responses ==
  [status : {200, StatusNoContent, 401, 404}, json : BOOLEAN, body : Bodies]

\* resp.ok
Ok(r) == r.status < FirstErrorStatus

NotAuthenticated == Raise("RuntimeError: Not authenticated. Call login() first.")
LoginFailed == Raise("RuntimeError: Login failed: no token in response.")

Bearer == <<"B", "e", "a", "r", "e", "r", " ">>

\* The header sent for a missing token, were the test of line 106 absent.
AuthHeaders_Unchecked ==
  IF _token.t = "str" THEN Str(Bearer \o _token.v)
  ELSE Str(Bearer \o <<"N", "o", "n", "e">>)

\* Lines 105-108: the Authorization header, or the error of a missing token.
_auth_headers ==
  IF ~Truthy(_token) THEN NotAuthenticated
  ELSE Str(Bearer \o Format(_token))

\* The operations that go through _request, with method, path and auth flag.
Endpoint ==
  [ login          |-> [method |-> "POST",   path |-> "/token", auth |-> FALSE],
    me             |-> [method |-> "GET",    path |-> "/me", auth |-> TRUE],
    get_account    |-> [method |-> "GET",    path |-> "/accounts/{account_id}", auth |-> TRUE],
    create_account |-> [method |-> "POST",   path |-> "/accounts", auth |-> FALSE],
    delete_account |-> [method |-> "DELETE", path |-> "/accounts/{account_id}", auth |-> TRUE],
    list_domains   |-> [method |-> "GET",    path |-> "/domains?page={page}", auth |-> FALSE],
    get_domain     |-> [method |-> "GET",    path |-> "/domains/{domain_id}", auth |-> FALSE],
    list_messages  |-> [method |-> "GET",    path |-> "/messages?page={page}", auth |-> TRUE],
    get_message    |-> [method |-> "GET",    path |-> "/messages/{msg_id}", auth |-> TRUE],
    delete_message |-> [method |-> "DELETE", path |-> "/messages/{msg_id}", auth |-> TRUE],
    mark_seen      |-> [method |-> "PATCH",  path |-> "/messages/{msg_id}", auth |-> TRUE] ]

RequestOps == DOMAIN Endpoint
DirectOps == {"get_message_source", "download_attachment"}
ClientOps == RequestOps \cup DirectOps

\* A request as it leaves the session: the per-request Authorization header
\* overrides the session's.
Sent(method, path, authorization) ==
  [method |-> method, path |-> path, authorization |-> authorization]

\* Lines 119-135: what _request returns for a response.
RequestResult(r) ==
  IF ~Ok(r) THEN Raise("HTTPError")
  ELSE IF r.status = StatusNoContent THEN Null
  ELSE IF r.json /\ r.body # Unparsable THEN r.body
  ELSE Raw

\* Lines 198-209: the bytes of an ok answer of /sources/{id}.
SourceBytes(r) ==
  IF r.json /\ r.body.t = "dict" /\ Get(r.body, "data", Null).t = "str"
  THEN Get(r.body, "data", Null)
  ELSE Raw

ClientInit ==
  /\ pc = "idle" /\ op = "" /\ arg = Null /\ ret = Null /\ out = <<>>
  /\ _token = Null /\ _session = Null
  /\ wire = <<>> /\ inflight = 0 /\ resp = Null

\* The caller invokes an operation of the client.
Call ==
  /\ pc \in {"idle", "done"}
  /\ \E o \in ClientOps : op' = o
  /\ pc' = "start"
  /\ ret' = Null /\ wire' = <<>> /\ resp' = Null
  /\ UNCHANGED <<arg, out, _token, _session, inflight>>

\* Lines 110-118: _request up to and including sending the request.
Request ==
  /\ pc = "start" /\ op \in RequestOps
  /\ IF Endpoint[op].auth /\ IsRaise(_auth_headers)
     THEN /\ ret' = _auth_headers
          /\ pc' = "done"
          /\ UNCHANGED <<wire, inflight>>
     ELSE /\ wire' = Append(wire, Sent(Endpoint[op].method, Endpoint[op].path,
                                       IF Endpoint[op].auth THEN _auth_headers
                                       ELSE _session))
          /\ inflight' = inflight + 1
          /\ pc' = "wait"
          /\ UNCHANGED ret
  /\ UNCHANGED <<op, arg, out, _token, _session, resp>>

\* The server answers the request the client is blocked on.
Respond ==
  /\ pc \in {"wait", "wait2"} /\ inflight > 0
  /\ \E r \in Responses : resp' = r
  /\ inflight' = inflight - 1
  /\ pc' = IF pc = "wait" THEN "got" ELSE "got2"
  /\ UNCHANGED <<op, arg, ret, out, _token, _session, wire>>

\* The blocking call ends with a timeout or connection error, which no
\* operation catches.
Timeout ==
  /\ pc \in {"wait", "wait2"} /\ inflight > 0
  /\ inflight' = inflight - 1
  /\ ret' = Raise("RequestException")
  /\ pc' = "done"
  /\ UNCHANGED <<op, arg, out, _token, _session, wire, resp>>

\* Lines 119-135 and 141-146: login handles the answer of POST /token.
LoginReturn ==
  /\ pc = "got" /\ op = "login"
  /\ LET data == RequestResult(resp)
         token == IF IsRaise(data) THEN data ELSE GetAttr(data, "token", Null)
     IN IF IsRaise(token)
        THEN ret' = token /\ UNCHANGED <<_token, _session>>
        ELSE IF ~Truthy(token)
        THEN ret' = LoginFailed /\ UNCHANGED <<_token, _session>>
        ELSE /\ _token' = token
             /\ _session' = Str(Bearer \o Format(token))
             /\ ret' = data
  /\ pc' = "done"
  /\ UNCHANGED <<op, arg, out, wire, inflight, resp>>

\* Lines 119-135, 164 and 182: list_domains and list_messages normalize.
ListReturn ==
  /\ pc = "got" /\ op \in {"list_domains", "list_messages"}
  /\ ret' = IF IsRaise(RequestResult(resp)) THEN RequestResult(resp)
            ELSE _normalize_collection(RequestResult(resp))
  /\ pc' = "done"
  /\ UNCHANGED <<op, arg, out, _token, _session, wire, inflight, resp>>

\* Lines 119-135, 159 and 188: the delete operations return None.
DeleteReturn ==
  /\ pc = "got" /\ op \in {"delete_account", "delete_message"}
  /\ ret' = IF IsRaise(RequestResult(resp)) THEN RequestResult(resp) ELSE Null
  /\ pc' = "done"
  /\ UNCHANGED <<op, arg, out, _token, _session, wire, inflight, resp>>

\* Lines 119-135: the other operations return what _request returns.
RequestReturn ==
  /\ pc = "got"
  /\ op \in {"me", "get_account", "create_account", "get_domain",
             "get_message", "mark_seen"}
  /\ ret' = RequestResult(resp)
  /\ pc' = "done"
  /\ UNCHANGED <<op, arg, out, _token, _session, wire, inflight, resp>>

\* Lines 196-197: get_message_source asks for /sources/{id}.
SourceGet ==
  /\ pc = "start" /\ op = "get_message_source"
  /\ IF IsRaise(_auth_headers)
     THEN /\ ret' = _auth_headers
          /\ pc' = "done"
          /\ UNCHANGED <<wire, inflight>>
     ELSE /\ wire' = Append(wire, Sent("GET", "/sources/{msg_id}", _auth_headers))
          /\ inflight' = inflight + 1
          /\ pc' = "wait"
          /\ UNCHANGED ret
  /\ UNCHANGED <<op, arg, out, _token, _session, resp>>

\* Lines 198-212: an ok answer is returned; after any other answer the
\* legacy path /messages/{id}/source is asked for.
SourceReturn ==
  /\ pc = "got" /\ op = "get_message_source"
  /\ IF Ok(resp)
     THEN /\ ret' = SourceBytes(resp)
          /\ pc' = "done"
          /\ UNCHANGED <<wire, inflight>>
     ELSE IF IsRaise(_auth_headers)
     THEN /\ ret' = _auth_headers
          /\ pc' = "done"
          /\ UNCHANGED <<wire, inflight>>
     ELSE /\ wire' = Append(wire, Sent("GET", "/messages/{msg_id}/source",
                                       _auth_headers))
          /\ inflight' = inflight + 1
          /\ pc' = "wait2"
          /\ UNCHANGED ret
  /\ UNCHANGED <<op, arg, out, _token, _session, resp>>

\* Lines 213-217: the answer of the legacy path.
SourceLegacyReturn ==
  /\ pc = "got2" /\ op = "get_message_source"
  /\ ret' = IF Ok(resp) THEN Raw ELSE Raise("HTTPError")
  /\ pc' = "done"
  /\ UNCHANGED <<op, arg, out, _token, _session, wire, inflight, resp>>

\* Lines 225-226: download_attachment asks for the attachment.
AttachmentGet ==
  /\ pc = "start" /\ op = "download_attachment"
  /\ IF IsRaise(_auth_headers)
     THEN /\ ret' = _auth_headers
          /\ pc' = "done"
          /\ UNCHANGED <<wire, inflight>>
     ELSE /\ wire' = Append(wire, Sent("GET",
                                       "/messages/{msg_id}/attachments/{attachment_id}",
                                       _auth_headers))
          /\ inflight' = inflight + 1
          /\ pc' = "wait"
          /\ UNCHANGED ret
  /\ UNCHANGED <<op, arg, out, _token, _session, resp>>

\* Lines 227-231: the answer of the attachment request.
AttachmentReturn ==
  /\ pc = "got" /\ op = "download_attachment"
  /\ ret' = IF Ok(resp) THEN Raw ELSE Raise("HTTPError")
  /\ pc' = "done"
  /\ UNCHANGED <<op, arg, out, _token, _session, wire, inflight, resp>>

ClientNext ==
  \/ Call
  \/ Request
  \/ Respond
  \/ Timeout
  \/ LoginReturn
  \/ ListReturn
  \/ DeleteReturn
  \/ RequestReturn
  \/ SourceGet
  \/ SourceReturn
  \/ SourceLegacyReturn
  \/ AttachmentGet
  \/ AttachmentReturn

ClientSpec == ClientInit /\ [][ClientNext]_vars

(***************************************************************************)
(* C1, C2: the Collection Normalizer.                                      *)
(***************************************************************************)
\* A valid Collection Envelope: an item sequence and a non-negative count.
ValidEnvelope(e) ==
  /\ e.t = "dict"
  /\ "hydra:member" \in DOMAIN e.v
  /\ e.v["hydra:member"].t = "list"
  /\ "hydra:totalItems" \in DOMAIN e.v
  /\ e.v["hydra:totalItems"].t = "num"
  /\ e.v["hydra:totalItems"].v >= 0

\* C1: for every decoded JSON value, mappings included, the result of
\* normalize is a valid envelope (items an ordered sequence, totalCount a
\* non-negative integer), with totalCount = len(items) when a mapping does
\* not carry it.
C1_NormalizeYieldsValidEnvelope ==
  Done("_normalize_collection") =>
    /\ ValidEnvelope(ret)
    /\ (arg.t = "dict" /\ "hydra:totalItems" \notin DOMAIN arg.v) =>
         ret.v["hydra:totalItems"] = Num(Len(ret.v["hydra:member"].v))

\* C2: for an ordered sequence L, normalize returns exactly
\* {items: L in the same order, totalCount: len(L)}; for a value that is
\* neither a sequence nor a mapping it returns the empty envelope
\* {items: [], totalCount: 0}; it never fails.
C2_NormalizeListsAndScalars ==
  Done("_normalize_collection") =>
    /\ ~IsRaise(ret)
    /\ ret.t = "dict"
    /\ arg.t = "list" =>
         /\ DOMAIN ret.v = {"hydra:member", "hydra:totalItems"}
         /\ ret.v["hydra:member"].t = "list"
         /\ Len(ret.v["hydra:member"].v) = Len(arg.v)
         /\ \A i \in 1..Len(arg.v) : ret.v["hydra:member"].v[i] = arg.v[i]
         /\ ret.v["hydra:totalItems"] = Num(Len(arg.v))
    /\ arg.t \notin {"list", "dict"} =>
         /\ DOMAIN ret.v = {"hydra:member", "hydra:totalItems"}
         /\ ret.v["hydra:member"] = List(<<>>)
         /\ ret.v["hydra:totalItems"] = Num(0)

\* A bare list of two elements has been normalized.
C2_Witness ==
  /\ Done("_normalize_collection")
  /\ arg.t = "list" /\ Len(arg.v) = 2 /\ arg.v[1] # arg.v[2]
  /\ ret.v["hydra:totalItems"] = Num(2)

(***************************************************************************)
(* C3: Ordering.                                                           *)
(***************************************************************************)
\* The createdAt string of an item, the empty string when missing or null.
CreatedOrEmpty(m) ==
  IF "createdAt" \in DOMAIN m.v /\ m.v["createdAt"].t = "str"
  THEN m.v["createdAt"].v ELSE <<>>

\* A listing of mappings whose createdAt is a string, null or missing.
TimestampedListing(x) ==
  /\ x.t = "list"
  /\ \A i \in 1..Len(x.v) :
       /\ x.v[i].t = "dict"
       /\ "createdAt" \in DOMAIN x.v[i].v =>
            x.v[i].v["createdAt"].t \in {"str", "null"}

\* keys are non-increasing along s
NonIncreasing(s) ==
  \A i \in 1..(Len(s) - 1) : ~StrLess(CreatedOrEmpty(s[i]), CreatedOrEmpty(s[i + 1]))

\* s is r rearranged by a permutation that keeps the input order of items
\* with equal keys.
StablePermutation(s, r) ==
  /\ Len(r) = Len(s)
  /\ \E f \in [1..Len(s) -> 1..Len(s)] :
       /\ \A i, j \in 1..Len(s) : i # j => f[i] # f[j]
       /\ \A i \in 1..Len(s) : r[i] = s[f[i]]
       /\ \A i, j \in 1..Len(s) :
            (i < j /\ CreatedOrEmpty(r[i]) = CreatedOrEmpty(r[j])) => f[i] < f[j]

\* C3: sortDescendingByCreatedAt returns a new sequence and leaves its
\* input unchanged; the result is a permutation of the input with keys
\* non-increasing (missing or null createdAt as the empty string, so last),
\* equal keys in input order; sorting a sorted sequence returns it unchanged
\* and sorting twice equals sorting once.
C3_SortStableDescending ==
  [][ ( /\ pc = "call" /\ pc' = "done"
        /\ op = "_sort_desc_by_created"
        /\ TimestampedListing(arg) ) =>
      ( /\ arg' = arg
        /\ ret'.t = "list"
        /\ StablePermutation(arg.v, ret'.v)
        /\ NonIncreasing(ret'.v)
        /\ \A i, j \in 1..Len(ret'.v) :
             (CreatedOrEmpty(ret'.v[i]) = <<>> /\ CreatedOrEmpty(ret'.v[j]) # <<>>)
               => j < i
        /\ NonIncreasing(arg.v) => ret' = arg
        /\ _sort_desc_by_created(ret') = ret'
        /\ arg = Listing(<<Str(January), Str(March), Missing>>) =>
             ret' = List(<<arg.v[2], arg.v[1], arg.v[3]>>) ) ]_vars

\* A listing with two equal keys, a later greater key and a missing key
\* has been sorted.
C3_Witness ==
  /\ Done("_sort_desc_by_created")
  /\ TimestampedListing(arg) /\ Len(arg.v) = 3 /\ ret.t = "list"
  /\ CreatedOrEmpty(arg.v[1]) = CreatedOrEmpty(arg.v[2])
  /\ CreatedOrEmpty(arg.v[1]) # <<>>
  /\ StrLess(CreatedOrEmpty(arg.v[2]), CreatedOrEmpty(arg.v[3]))
  /\ ret = List(<<arg.v[3], arg.v[1], arg.v[2]>>)

(***************************************************************************)
(* C4: the intro preview of the listing renderer.                          *)
(***************************************************************************)
IsIntroLine(l) == l.fmt = "      Intro: {preview}"

\* The first 120 characters with every newline replaced by a space, then
\* the ellipsis marker exactly when the intro is longer than 120.
OneLinePreview(intro) ==
  [i \in 1..(IF Len(intro) < IntroBudget THEN Len(intro) ELSE IntroBudget) |->
     IF intro[i] = "\n" THEN " " ELSE intro[i]]
    \o (IF Len(intro) > IntroBudget THEN <<Ellipsis>> ELSE <<>>)

\* A listing of one item whose intro is a non-empty string.
OneIntroListing(x) ==
  /\ x.t = "dict" /\ "hydra:member" \in DOMAIN x.v
  /\ x.v["hydra:member"].t = "list" /\ Len(x.v["hydra:member"].v) = 1
  /\ x.v["hydra:member"].v[1].t = "dict"
  /\ "intro" \in DOMAIN x.v["hydra:member"].v[1].v
  /\ x.v["hydra:member"].v[1].v["intro"].t = "str"
  /\ x.v["hydra:member"].v[1].v["intro"].v # <<>>

\* C4: in print_list every item with a non-empty intro gets a preview that
\* is the first 120 characters of the intro with every newline replaced by a
\* space, followed by the ellipsis marker exactly when the intro is longer
\* than 120 characters, so no preview contains a newline.
C4_IntroPreviewOnOneLine ==
  Done("print_list") =>
    /\ \A i \in 1..Len(out) :
         IsIntroLine(out[i]) =>
           \A j \in 1..Len(out[i].args[1].v) : out[i].args[1].v[j] # "\n"
    /\ OneIntroListing(arg) =>
         \E i \in 1..Len(out) :
           /\ IsIntroLine(out[i])
           /\ out[i].args[1] =
                Str(OneLinePreview(arg.v["hydra:member"].v[1].v["intro"].v))

(***************************************************************************)
(* C5, C6: the HTML Simplifier, against the passes the specification       *)
(* lists, each stated by the positions of the text it keeps.               *)
(***************************************************************************)
\* The characters of s at the indices I, in order.
KeepIndices(s, I) ==
  LET nth(k) == CHOOSE i \in I : Cardinality({j \in I : j < i}) = k - 1
  IN [k \in 1..Cardinality(I) |-> s[nth(k)]]

Fold(s) == [i \in 1..Len(s) |-> Lower(s[i])]

\* s without its leading and trailing whitespace.
Trim(s) ==
  LET I == {i \in 1..Len(s) : s[i] \notin Whitespace} IN
  IF I = {} THEN <<>>
  ELSE SubSeq(s, CHOOSE i \in I : \A j \in I : i <= j,
                 CHOOSE i \in I : \A j \in I : j <= i)

\* Every run of three or more newlines cut down to two.
CollapseNewlines(s) ==
  KeepIndices(s, {i \in 1..Len(s) :
    ~(i >= 3 /\ s[i] = "\n" /\ s[i - 1] = "\n" /\ s[i - 2] = "\n")})

\* Spaces and tabs that run up to a newline, dropped.
DropSpaceBeforeNewline(s) ==
  KeepIndices(s, {i \in 1..Len(s) :
    ~(\E j \in (i + 1)..Len(s) :
         /\ s[j] = "\n"
         /\ \A k \in i..(j - 1) : s[k] \in {" ", "\t"})})

\* Index i lies in a tag: in a stretch from a '<' to the next '>'.
InTag(s, i) ==
  /\ \E q \in i..Len(s) : s[q] = ">"
  /\ \E p \in 1..i : s[p] = "<" /\ \A k \in p..(i - 1) : s[k] # ">"

StripTags(s) == KeepIndices(s, {i \in 1..Len(s) : ~InTag(s, i)})

\* The index of the first '>' at or after i, or 0.
NextClose(s, i) ==
  IF \E q \in i..Len(s) : s[q] = ">"
  THEN CHOOSE q \in i..Len(s) : s[q] = ">" /\ \A k \in i..(q - 1) : s[k] # ">"
  ELSE 0

\* s with the tags that start at the indices i where TagLen[i] > 0, each
\* TagLen[i] characters long, replaced by a newline.
TagsToNewline(s, TagLen) ==
  Concat([i \in 1..Len(s) |->
            IF TagLen[i] > 0 THEN <<"\n">>
            ELSE IF \E p \in 1..(i - 1) : TagLen[p] > 0 /\ i < p + TagLen[p]
            THEN <<>> ELSE <<s[i]>>])

\* Length of the br tag at s[i], or 0.  As the claim words it the tag is
\* <br> or <br/>; as amended, whitespace may precede the slash or the '>'.
BrLen(s, i, asClaimed) ==
  IF ~(i + 2 <= Len(s) /\ Fold(SubSeq(s, i, i + 2)) = <<"<", "b", "r">>) THEN 0
  ELSE LET w == IF asClaimed THEN 0
                ELSE Cardinality({j \in (i + 3)..Len(s) :
                       \A k \in (i + 3)..j : s[k] \in Whitespace})
           slash == IF i + 3 + w <= Len(s) /\ s[i + 3 + w] = "/" THEN 1 ELSE 0
           q == i + 3 + w + slash
       IN IF q <= Len(s) /\ s[q] = ">" THEN q - i + 1 ELSE 0

BrToNewline(s, asClaimed) ==
  TagsToNewline(s, [i \in 1..Len(s) |-> BrLen(s, i, asClaimed)])

\* Names of the elements whose closing tag becomes a newline.  As the claim
\* words it the headings are h1 to h6; as amended, h and any one digit.
BlockNames(asClaimed) ==
  { <<"p">>, <<"d", "i", "v">>, <<"l", "i">>, <<"t", "r">>,
    <<"t", "a", "b", "l", "e">>, <<"u", "l">>, <<"o", "l">> } \cup
  { <<"h", d>> : d \in IF asClaimed THEN {"1", "2", "3", "4", "5", "6"}
                       ELSE Digits }

\* Length of the closing tag of a block element at s[i], or 0.
CloseLen(s, i, asClaimed) ==
  IF ~(i + 1 <= Len(s) /\ s[i] = "<" /\ s[i + 1] = "/") THEN 0
  ELSE LET q == NextClose(s, i + 2) IN
       IF q # 0 /\ Fold(SubSeq(s, i + 2, q - 1)) \in BlockNames(asClaimed)
       THEN q - i + 1 ELSE 0

BlockCloseToNewline(s, asClaimed) ==
  TagsToNewline(s, [i \in 1..Len(s) |-> CloseLen(s, i, asClaimed)])

\* Does the opening tag of element `name` start at s[i]?  As the claim words
\* it the tag name is `name`; as amended, the name need only begin with it.
OpensAt(s, i, name, asClaimed) ==
  /\ i + Len(name) <= Len(s)
  /\ s[i] = "<"
  /\ Fold(SubSeq(s, i + 1, i + Len(name))) = name
  /\ asClaimed =>
       /\ i + Len(name) + 1 <= Len(s)
       /\ s[i + Len(name) + 1] \in Whitespace \cup {">", "/"}

\* End (index after it) of the complete block of element `name` that opens
\* at s[i]: through the first closing tag of that name after the '>' of the
\* opening tag; 0 when no complete block opens there.
BlockEndOf(s, i, name, asClaimed) ==
  IF ~OpensAt(s, i, name, asClaimed) THEN 0
  ELSE LET q == NextClose(s, i + Len(name) + 1)
           closing == <<"<", "/">> \o name \o <<">">>
           K == {k \in (q + 1)..Len(s) :
                   /\ k + Len(closing) - 1 <= Len(s)
                   /\ Fold(SubSeq(s, k, k + Len(closing) - 1)) = closing}
       IN IF q = 0 \/ K = {} THEN 0
          ELSE (CHOOSE k \in K : \A j \in K : k <= j) + Len(closing)

BlockEnd(s, i, asClaimed) ==
  LET a == BlockEndOf(s, i, <<"s", "c", "r", "i", "p", "t">>, asClaimed)
  IN IF a # 0 THEN a
     ELSE BlockEndOf(s, i, <<"s", "t", "y", "l", "e">>, asClaimed)

RECURSIVE DropBlocksFrom(_, _, _)
DropBlocksFrom(s, i, asClaimed) ==
  IF i > Len(s) THEN <<>>
  ELSE IF BlockEnd(s, i, asClaimed) # 0
  THEN DropBlocksFrom(s, BlockEnd(s, i, asClaimed), asClaimed)
  ELSE <<s[i]>> \o DropBlocksFrom(s, i + 1, asClaimed)

\* Every complete script and style block deleted with its content, from the
\* left.
DropBlocks(s, asClaimed) == DropBlocksFrom(s, 1, asClaimed)

\* The string fragments joined with a blank line, entities decoded.
JoinedAndDecoded(parts) ==
  LET strs == SelectSeq(parts, LAMBDA x : x.t = "str")
  IN Unescape(Join(<<"\n", "\n">>, [i \in 1..Len(strs) |-> strs[i].v]))

\* The ordered pipeline of the specification.
Pipeline(parts, asClaimed) ==
  Trim(CollapseNewlines(DropSpaceBeforeNewline(StripTags(
    BlockCloseToNewline(
      BrToNewline(DropBlocks(JoinedAndDecoded(parts), asClaimed), asClaimed),
      asClaimed)))))

Contains(s, c) == \E i \in 1..Len(s) : s[i] = c

HiThere == <<"H", "i", "\n", "t", "h", "e", "r", "e">>

\* What C6 states of a fragment sequence and the result of simplify.
SimplifyIsPipeline(parts, result, asClaimed) ==
  /\ result = Str(Pipeline(parts, asClaimed))
  /\ parts = <<Str(ExampleHtml)>> => result = Str(HiThere)
  /\ ~Contains(DropBlocks(JoinedAndDecoded(parts), asClaimed), "e") =>
       ~Contains(result.v, "e")

\* C6 as claimed: simplify equals the ordered pipeline of the specification
\* for every fragment sequence, where <br> is <br> or <br/>, the closing
\* tags turned into newlines are those of p, div, h1-h6, li, tr, table, ul,
\* ol, and a block is a complete <script> or <style> element.
C6_SimplifyIsPipelineAsClaimed ==
  (Done("_simplify_html") /\ arg.t = "list") =>
    SimplifyIsPipeline(arg.v, ret, TRUE)

\* C6 as amended: simplify equals the ordered pipeline (join the string
\* fragments with a blank line; decode entities; delete complete script and
\* style blocks; br to newline; closing block tags to newline; delete every
\* remaining tag; drop spaces and tabs before a newline; collapse 3+ newlines
\* to 2; trim), where a block opens at any tag whose name begins with script
\* or style, a br tag may hold whitespace before its optional slash, and the
\* heading closing tags are h followed by any one digit.  The example of the
\* specification gives "Hi\nthere", and no text from inside a complete block
\* reaches the output.
C6_SimplifyIsPipeline ==
  (Done("_simplify_html") /\ arg.t = "list") =>
    SimplifyIsPipeline(arg.v, ret, FALSE)

\* The example of the specification has been simplified.
C6_Witness ==
  /\ Done("_simplify_html")
  /\ arg = List(<<Str(ExampleHtml)>>)
  /\ ret = Str(HiThere)

\* One string fragment.
OneString(x) == x.t = "list" /\ Len(x.v) = 1 /\ x.v[1].t = "str"

\* No '<' with a '>' somewhere after it.
NoTags(s) == ~\E i, j \in 1..Len(s) : i < j /\ s[i] = "<" /\ s[j] = ">"

\* A character reference the decoder knows starts somewhere in s.
HasEntity(s) ==
  \E i \in 1..Len(s) :
    /\ s[i] = "&"
    /\ \E name \in {<<"l", "t">>, <<"g", "t">>, <<"a", "m", "p">>} :
         StartsAt(s, i + 1, name)

HasSpaceBeforeNewline(s) ==
  \E i \in 1..(Len(s) - 1) : s[i] \in {" ", "\t"} /\ s[i + 1] = "\n"

\* C5 as claimed: for one string without tags, simplify returns the text
\* changed only by trimming and by collapsing runs of 3+ newlines to two;
\* entity-like sequences, stray '<' or '>' and spaces before a newline are
\* not altered.
C5_PlainTextRoundTripAsClaimed ==
  (Done("_simplify_html") /\ OneString(arg) /\ NoTags(arg.v[1].v)) =>
    ret = Str(Trim(CollapseNewlines(arg.v[1].v)))

\* C5 as amended: for one string that holds no tag, no character reference
\* and no space or tab directly before a newline, simplify returns the text
\* changed only by trimming and by collapsing runs of 3+ newlines to two;
\* stray '<' or '>' are kept.
C5_PlainTextRoundTrip ==
  ( /\ Done("_simplify_html") /\ OneString(arg)
    /\ NoTags(arg.v[1].v)
    /\ ~HasEntity(arg.v[1].v)
    /\ ~HasSpaceBeforeNewline(arg.v[1].v) ) =>
    /\ ret = Str(Trim(CollapseNewlines(arg.v[1].v)))
    /\ ret = Str(CollapseNewlines(Trim(arg.v[1].v)))

\* A tag-free text with a stray '<' and a run of three newlines inside it
\* has been simplified: the run is collapsed and the '<' is kept.
C5_Witness ==
  /\ Done("_simplify_html") /\ OneString(arg)
  /\ NoTags(arg.v[1].v) /\ ~HasEntity(arg.v[1].v)
  /\ ~HasSpaceBeforeNewline(arg.v[1].v)
  /\ Contains(arg.v[1].v, "<")
  /\ \E i \in 1..(Len(arg.v[1].v) - 4) :
       /\ arg.v[1].v[i] = "a"
       /\ \A k \in 1..3 : arg.v[1].v[i + k] = "\n"
       /\ arg.v[1].v[i + 4] = "<"
  /\ Contains(ret.v, "<") /\ ret.v # arg.v[1].v

(***************************************************************************)
(* C7: body selection of the single-message renderer.                      *)
(***************************************************************************)
TextHeader == Line("Text Body", <<>>)
HtmlHeader == Line("HTML Body (simplified)", <<>>)
NoContent == Line("(No body content)", <<>>)

\* Line l is printed, and the line two after it prints body.
SectionWith(l, body) ==
  \E i \in 1..(Len(out) - 2) : out[i] = l /\ out[i + 2].args = <<body>>

Shows(l) == \E i \in 1..Len(out) : out[i] = l

\* A message record of the data model, as far as print_message reads it:
\* html absent, null or a sequence, address names and addresses strings.
MessageRecord(x) ==
  /\ x.t = "dict"
  /\ Get(x, "html", Null).t \in {"null", "list"}
  /\ \A key \in {"to", "recipients"} :
       LET tos == Get(x, key, Null) IN
         tos.t = "list" =>
           \A i \in 1..Len(tos.v) :
             tos.v[i].t = "dict" =>
               \A f \in DOMAIN tos.v[i].v : tos.v[i].v[f].t \in {"str", "null"}

\* C7: for every message record print_message renders exactly one of: the
\* trimmed plain-text body when text is a string that is non-empty after
\* trimming; otherwise the simplified HTML body when simplify of the html
\* fragments is non-empty; otherwise the "no content" line.  The HTML header
\* is never printed over an empty simplified result, and the HTML body is
\* never shown when a non-blank plain-text body exists.
C7_BodySelection ==
  (Done("print_message") /\ MessageRecord(arg)) =>
    LET text == Get(arg, "text", Null)
        html == Get(arg, "html", Null)
        hasText == text.t = "str" /\ Trim(text.v) # <<>>
        simplified == IF html.t = "list" THEN _simplify_html(html) ELSE Str(<<>>)
    IN /\ Cardinality({l \in {TextHeader, HtmlHeader, NoContent} : Shows(l)}) = 1
       /\ Cardinality({i \in 1..Len(out) :
                         out[i] \in {TextHeader, HtmlHeader, NoContent}}) = 1
       /\ hasText => SectionWith(TextHeader, Str(Trim(text.v)))
       /\ (~hasText /\ simplified.v # <<>>) => SectionWith(HtmlHeader, simplified)
       /\ (~hasText /\ simplified.v = <<>>) => Shows(NoContent)
       /\ Shows(HtmlHeader) => (simplified.v # <<>> /\ ~hasText)

\* A message whose text is blank after trimming and whose html fragments
\* reduce to nothing has been rendered with the "no content" line.
C7_Witness ==
  /\ Done("print_message") /\ MessageRecord(arg)
  /\ Get(arg, "text", Null).t = "str" /\ Get(arg, "text", Null).v # <<>>
  /\ Get(arg, "html", Null).t = "list"
  /\ \E i \in 1..Len(Get(arg, "html", Null).v) :
       Get(arg, "html", Null).v[i].t = "str" /\ Get(arg, "html", Null).v[i].v # <<>>
  /\ Shows(NoContent)

(***************************************************************************)
(* C8: totality of the layer.                                              *)
(***************************************************************************)
\* C8: normalize, sortDescendingByCreatedAt, formatAddress,
\* formatAddressList, simplify and the listing and message renderers return
\* a result for every input value and never raise an exception.
C8_LayerNeverRaises == pc = "done" => ~IsRaise(ret)

(***************************************************************************)
(* C9, C10: the Address Formatter.                                         *)
(***************************************************************************)
\* A field value that counts as present: not null, not "", not 0.
NonEmpty(x) ==
  ~( \/ x.t = "null"
     \/ (x.t = "str" /\ x.v = <<>>)
     \/ (x.t = "num" /\ x.v = 0) )

\* The text of a field value inside "{name} <{address}>".
FieldText(x) == IF x.t = "str" THEN x.v ELSE Decimal(x.v)

\* C9: formatAddress returns "{name} <{address}>" for a mapping whose name
\* and address are both non-empty, the one non-empty value alone when only
\* one of the two is present, the input itself for a bare string, and the
\* empty string for anything else; the result is blank only if neither
\* field is present.
C9_FormatAddress ==
  Done("_format_address") =>
    /\ arg.t = "dict" =>
         LET name == Get(arg, "name", Null)
             address == Get(arg, "address", Null)
         IN /\ (NonEmpty(name) /\ NonEmpty(address)) =>
                 ret = Str(FieldText(name) \o <<" ", "<">>
                             \o FieldText(address) \o <<">">>)
            /\ (NonEmpty(name) /\ ~NonEmpty(address)) => ret = name
            /\ (~NonEmpty(name) /\ NonEmpty(address)) => ret = address
            /\ (~NonEmpty(name) /\ ~NonEmpty(address)) => ret = Str(<<>>)
            /\ ret = Str(<<>>) => (~NonEmpty(name) /\ ~NonEmpty(address))
    /\ arg.t = "str" => ret = arg
    /\ arg.t \notin {"dict", "str"} => ret = Str(<<>>)

\* A mapping that carries a name and an address has been formatted, and one
\* that carries only an address.
C9_Witness ==
  /\ Done("_format_address")
  /\ arg.t = "dict"
  /\ \/ /\ DOMAIN arg.v = {"name", "address"}
        /\ ret = Str(NameBob \o <<" ", "<">> \o AddrB \o <<">">>)
     \/ /\ DOMAIN arg.v = {"address"}
        /\ ret = Str(AddrB)

\* The formatAddress results of the elements of l that are not empty, in
\* order.
NonEmptyResults(l) ==
  SelectSeq([i \in 1..Len(l) |-> _format_address(l[i])],
            LAMBDA r : r # Str(<<>>))

\* What C10 states of a list and its result.
JoinedAddresses(l) ==
  LET rs == NonEmptyResults(l) IN
  Str(Join(<<",", " ">>, [i \in 1..Len(rs) |-> rs[i].v]))

\* C10: formatAddressList never fails and returns the empty string for
\* null, the result for the one-element list when given a single mapping or
\* a single string, for an ordered sequence the formatAddress results of its
\* elements in input order with every empty result dropped, joined by ", ",
\* and the empty string for any other type.
C10_FormatAddressList ==
  Done("_format_address_list") =>
    /\ ~IsRaise(ret)
    /\ arg.t = "null" => ret = Str(<<>>)
    /\ arg.t \in {"dict", "str"} => ret = JoinedAddresses(<<arg>>)
    /\ arg.t = "list" => ret = JoinedAddresses(arg.v)
    /\ arg.t \notin {"null", "dict", "str", "list"} => ret = Str(<<>>)

(***************************************************************************)
(* C11, C12: the Remote Client.                                            *)
(***************************************************************************)
\* C11: every operation of the client performs exactly one network call:
\* an operation that has ended (other than by the missing-token error, which
\* precedes the network) has sent one request, no operation ever sends a
\* second request after a failed response, and never more than one request
\* is in flight.
C11_OneCallPerOperation ==
  /\ inflight <= 1
  /\ Len(wire) <= 1
  /\ (pc = "done" /\ ret # NotAuthenticated) => Len(wire) = 1

\* The operations that need the token.
AuthenticatedOps ==
  {"me", "get_account", "delete_account", "list_messages", "get_message",
   "delete_message", "mark_seen", "get_message_source", "download_attachment"}

\* The response carries a non-empty token.
CarriesToken(r) ==
  /\ Ok(r) /\ r.status # StatusNoContent /\ r.json
  /\ r.body.t = "dict"
  /\ "token" \in DOMAIN r.body.v
  /\ r.body.v["token"] \notin {Null, Str(<<>>)}

\* C12: over any sequence of operations, (a) the token changes only when
\* login handles a response that carries a non-empty token, and becomes that
\* token; (b) a login that ends with an error leaves the token as it was;
\* (c) while the token is unset, the first step of every authenticated
\* operation ends it with the 'not authenticated' error, with no request
\* sent and none in flight; (d) whenever an authenticated operation sends a
\* request, the token is set and the request carries it.
C12_AuthInvariant ==
  [][ /\ (_token' # _token) =>
           /\ op = "login" /\ pc = "got"
           /\ CarriesToken(resp)
           /\ _token' = resp.body.v["token"]
      /\ (op = "login" /\ pc' = "done" /\ IsRaise(ret')) => _token' = _token
      /\ (pc = "start" /\ op \in AuthenticatedOps /\ _token \in {Null, Str(<<>>)}) =>
           /\ pc' = "done"
           /\ ret' = NotAuthenticated
           /\ wire' = <<>>
           /\ inflight' = 0
      /\ (wire' # wire /\ op' \in AuthenticatedOps /\ wire' # <<>>) =>
           /\ _token \notin {Null, Str(<<>>)}
           /\ wire'[Len(wire')].authorization = Str(Bearer \o _token.v)
    ]_vars

\* Before any successful login, an authenticated operation has ended with
\* the 'not authenticated' error without sending a request.
C12_Witness ==
  /\ pc = "done" /\ op = "get_message_source"
  /\ _token = Null
  /\ ret = NotAuthenticated
  /\ wire = <<>> /\ inflight = 0

====
